---- MODULE Spec2Model ----
(***************************************************************************)
(* UnrealMCP bridge: UUnrealMCPBridge::ExecuteCommand (the cross-thread    *)
(* submit-to-game-thread / block-for-result rendezvous), its dispatch      *)
(* chain and the normalisation of a handler's result into the response     *)
(* envelope; and UUnrealMCPBridge::StartServer / StopServer, which create   *)
(* and take down the listener socket and the server thread that calls      *)
(* ExecuteCommand; and the HandleCommand functions of the text families    *)
(* (asset, content browser, asset registry, level, landscape, world),      *)
(* the level handlers with their effect on the editor world.               *)
(*                                                                         *)
(* Threads are numbered: 0 is the game (owner) thread, 1..NumCallers are   *)
(* the other threads that call ExecuteCommand.  JSON objects are records   *)
(* (field name -> value); a null TSharedPtr<FJsonObject> is NullPtr.  A    *)
(* FString of JSON text is a record [wellformed, denotes]: whether the     *)
(* text parses as a JSON object, and the object it then denotes.           *)
(***************************************************************************)
EXTENDS Integers, Sequences, FiniteSets, TLC

\* ------------------------------------------------------------------ bounds
\* number of non-owner threads calling ExecuteCommand
NumCallers == 2
\* total number of ExecuteCommand calls in one behaviour
MaxRequests == 2
\* most streaming levels a world of the model holds
MaxLevels == 2

\* ----------------------------------------------------------------- threads
GameThread == 0
Callers == 1..NumCallers
Threads == {GameThread} \cup Callers
\* a worker-pool thread, one per task
WorkerOf(id) == GameThread - id

\* ------------------------------------------------------------ JSON values
NullPtr == [nullptr |-> TRUE]
EmptyObject == [f \in {} |-> TRUE]
HasField(obj, f) == f \in DOMAIN obj
SetField(obj, f, v) == [g \in (DOMAIN obj) \cup {f} |-> IF g = f THEN v ELSE obj[g]]

\* whether an FString holds a character ('"' or '\') that JSON string syntax
\* needs escaped; of the strings the model uses, only this one does
NeedsEscape(s) == s \in {"/Game/q\"t"}

\* FJsonSerializer::Serialize of an object built through the FJsonObject API:
\* always well-formed text (the writer escapes string values)
Serialize(obj) == [wellformed |-> TRUE, denotes |-> obj]
\* FJsonSerializer::Deserialize(Reader, ResultJson): on a parse failure the
\* out-parameter is left as it was
Deserialize(text, ResultJson) == IF text.wellformed THEN text.denotes ELSE ResultJson

\* --------------------------------------------------------- dispatch chain
EditorNames == {"get_actors_in_level", "find_actors_by_name", "spawn_actor",
                "create_actor", "delete_actor", "set_actor_transform",
                "get_actor_properties", "set_actor_property",
                "spawn_blueprint_actor", "focus_viewport", "take_screenshot"}
BlueprintNames == {"create_blueprint", "add_component_to_blueprint",
                   "set_component_property", "set_physics_properties",
                   "compile_blueprint", "set_blueprint_property",
                   "set_static_mesh_properties", "set_pawn_properties"}
BlueprintNodeNames == {"connect_blueprint_nodes",
                       "add_blueprint_get_self_component_reference",
                       "add_blueprint_self_reference", "find_blueprint_nodes",
                       "add_blueprint_event_node", "add_blueprint_input_action_node",
                       "add_blueprint_function_node", "add_blueprint_get_component_node",
                       "add_blueprint_variable"}
ProjectNames == {"create_input_mapping"}
UMGNames == {"create_umg_widget_blueprint", "add_text_block_to_widget",
             "add_button_to_widget", "bind_widget_event",
             "set_text_block_binding", "add_widget_to_viewport"}
AssetNames == {"load_asset", "save_asset", "duplicate_asset", "delete_asset",
               "rename_asset", "move_asset", "import_asset", "export_asset"}
ContentBrowserNames == {"list_assets", "get_asset_metadata", "search_assets"}
AssetRegistryNames == {"get_asset_references", "get_asset_dependencies"}
LevelNames == {"create_level", "save_level", "load_level", "set_level_visibility",
               "create_streaming_level", "load_streaming_level",
               "unload_streaming_level"}
LandscapeNames == {"create_landscape", "modify_landscape", "paint_landscape_layer",
                   "get_landscape_info"}
WorldNames == {"get_current_level_info"}

\* the families whose HandleCommand returns a TSharedPtr<FJsonObject>
ObjectFamilies == {"Editor", "Blueprint", "BlueprintNode", "Project", "UMG"}
\* the families whose HandleCommand returns JSON text
TextFamilies == {"Asset", "ContentBrowser", "AssetRegistry", "Level", "Landscape", "World"}
Families == ObjectFamilies \cup TextFamilies

\* the lower-case form of a string; of the strings the model uses, only
\* these have upper-case letters in a place where it matters
ToLower(str) ==
    IF str = "PING" THEN "ping"
    ELSE IF str = "Load_Asset" THEN "load_asset"
    ELSE IF str = "Get_Asset_References" THEN "get_asset_references"
    ELSE str
\* FString::operator== (CommandType == TEXT("...")): it compares with
\* ESearchCase::IgnoreCase, so letter case makes no difference
Equals(a, b) == ToLower(a) = ToLower(b)
\* CommandType == TEXT(n) for one of the names n of a branch
Matches(CommandType, Names) == \E n \in Names : Equals(CommandType, n)

\* the if / else-if chain of ExecuteCommand, first match wins
Route(CommandType) ==
    IF Matches(CommandType, {"ping"}) THEN "ping"
    ELSE IF Matches(CommandType, EditorNames) THEN "Editor"
    ELSE IF Matches(CommandType, BlueprintNames) THEN "Blueprint"
    ELSE IF Matches(CommandType, BlueprintNodeNames) THEN "BlueprintNode"
    ELSE IF Matches(CommandType, ProjectNames) THEN "Project"
    ELSE IF Matches(CommandType, UMGNames) THEN "UMG"
    ELSE IF Matches(CommandType, AssetNames) THEN "Asset"
    ELSE IF Matches(CommandType, ContentBrowserNames) THEN "ContentBrowser"
    ELSE IF Matches(CommandType, AssetRegistryNames) THEN "AssetRegistry"
    ELSE IF Matches(CommandType, LevelNames) THEN "Level"
    ELSE IF Matches(CommandType, LandscapeNames) THEN "Landscape"
    ELSE IF Matches(CommandType, WorldNames) THEN "World"
    ELSE "unknown"

RegisteredNames == {"ping"} \cup EditorNames \cup BlueprintNames \cup BlueprintNodeNames
                   \cup ProjectNames \cup UMGNames \cup AssetNames \cup ContentBrowserNames
                   \cup AssetRegistryNames \cup LevelNames \cup LandscapeNames \cup WorldNames

\* the requests the callers of the model send: ping, a name outside the
\* chain, a command of an object family and one of a text family
SampleRequests ==
    { [CommandType |-> "ping", Params |-> [asset_path |-> "/Game/A"]],
      [CommandType |-> "does_not_exist", Params |-> [asset_path |-> "/Game/A"]],
      [CommandType |-> "spawn_actor", Params |-> [asset_path |-> "/Game/A"]],
      [CommandType |-> "spawn_actor", Params |-> [asset_path |-> "/Game/B"]],
      [CommandType |-> "load_asset", Params |-> [asset_path |-> "/Game/A"]],
      [CommandType |-> "load_asset", Params |-> [asset_path |-> "/Game/q\"t"]] }


\* ------------------------------------------------------- handler families
\* FJsonObject::GetStringField: the empty string when the field is missing
GetStringField(Params, f) == IF HasField(Params, f) THEN Params[f] ELSE ""

\* FString::Printf of a JSON template with the strings `args` spliced raw
\* into string literals: the text parses iff no spliced string needs escaping
Printf(obj, args) == [wellformed |-> \A a \in args : ~NeedsEscape(a), denotes |-> obj]

\* FUnrealMCPAssetCommands::LoadAsset; `loaded` is whether
\* UEditorAssetLibrary::LoadAsset returned an object
LoadAsset(Params, loaded) ==
    LET AssetPath == GetStringField(Params, "asset_path") IN
    IF ~loaded
    THEN Printf([success |-> FALSE, error |-> "Failed to load asset: " \o AssetPath],
                {AssetPath})
    ELSE Printf([success |-> TRUE,
                 result |-> [asset_path |-> AssetPath, loaded |-> TRUE, class |-> "StaticMesh"]],
                {AssetPath})

\* the other handlers of FUnrealMCPAssetCommands: each reads its paths with
\* GetStringField, makes one UEditorAssetLibrary / AssetTools call and
\* prints a failure or a success text with the paths spliced in; `ok` is
\* whether the engine call worked
SaveAsset(Params, ok) ==
    LET AssetPath == GetStringField(Params, "asset_path") IN
    IF ~ok
    THEN Printf([success |-> FALSE, error |-> "Failed to save asset: " \o AssetPath], {AssetPath})
    ELSE Printf([success |-> TRUE, result |-> [asset_path |-> AssetPath, saved |-> TRUE]],
                {AssetPath})
DuplicateAsset(Params, ok) ==
    LET SourcePath == GetStringField(Params, "source_path")
        DestinationPath == GetStringField(Params, "destination_path") IN
    IF ~ok
    THEN Printf([success |-> FALSE,
                 error |-> "Failed to duplicate asset from " \o SourcePath \o " to " \o DestinationPath],
                {SourcePath, DestinationPath})
    ELSE Printf([success |-> TRUE,
                 result |-> [source |-> SourcePath, destination |-> DestinationPath,
                             duplicated |-> TRUE]],
                {SourcePath, DestinationPath})
DeleteAsset(Params, ok) ==
    LET AssetPath == GetStringField(Params, "asset_path") IN
    IF ~ok
    THEN Printf([success |-> FALSE, error |-> "Failed to delete asset: " \o AssetPath], {AssetPath})
    ELSE Printf([success |-> TRUE, result |-> [asset_path |-> AssetPath, deleted |-> TRUE]],
                {AssetPath})
RenameAsset(Params, ok) ==
    LET SourcePath == GetStringField(Params, "source_path")
        NewName == GetStringField(Params, "new_name") IN
    IF ~ok
    THEN Printf([success |-> FALSE,
                 error |-> "Failed to rename asset from " \o SourcePath \o " to " \o NewName],
                {SourcePath, NewName})
    ELSE Printf([success |-> TRUE, result |-> [old_path |-> SourcePath, new_path |-> NewName]],
                {SourcePath, NewName})
MoveAsset(Params, ok) ==
    LET SourcePath == GetStringField(Params, "source_path")
        DestinationPath == GetStringField(Params, "destination_path") IN
    IF ~ok
    THEN Printf([success |-> FALSE,
                 error |-> "Failed to move asset from " \o SourcePath \o " to " \o DestinationPath],
                {SourcePath, DestinationPath})
    ELSE Printf([success |-> TRUE,
                 result |-> [source |-> SourcePath, destination |-> DestinationPath,
                             moved |-> TRUE]],
                {SourcePath, DestinationPath})
ImportAsset(Params, ok) ==
    LET FilePath == GetStringField(Params, "file_path")
        DestinationPath == GetStringField(Params, "destination_path") IN
    IF ~ok
    THEN Printf([success |-> FALSE, error |-> "Failed to import asset from " \o FilePath],
                {FilePath})
    ELSE Printf([success |-> TRUE, result |-> [imported_assets |-> <<DestinationPath>>]], {})
ExportAsset(Params, ok) ==
    LET AssetPath == GetStringField(Params, "asset_path")
        ExportPath == GetStringField(Params, "export_path") IN
    IF ~ok
    THEN Printf([success |-> FALSE, error |-> "Asset not found: " \o AssetPath], {AssetPath})
    ELSE Printf([success |-> TRUE, result |-> [asset_path |-> AssetPath, export_path |-> ExportPath]],
                {AssetPath, ExportPath})

\* FUnrealMCPAssetCommands::HandleCommand
AssetHandleCommand(CommandType, Params, loaded) ==
    IF Equals(CommandType, "load_asset") THEN LoadAsset(Params, loaded)
    ELSE IF Equals(CommandType, "save_asset") THEN SaveAsset(Params, loaded)
    ELSE IF Equals(CommandType, "duplicate_asset") THEN DuplicateAsset(Params, loaded)
    ELSE IF Equals(CommandType, "delete_asset") THEN DeleteAsset(Params, loaded)
    ELSE IF Equals(CommandType, "rename_asset") THEN RenameAsset(Params, loaded)
    ELSE IF Equals(CommandType, "move_asset") THEN MoveAsset(Params, loaded)
    ELSE IF Equals(CommandType, "import_asset") THEN ImportAsset(Params, loaded)
    ELSE IF Equals(CommandType, "export_asset") THEN ExportAsset(Params, loaded)
    ELSE Printf([success |-> FALSE, error |-> "Unknown asset command: " \o CommandType],
                {CommandType})

\* an asset path that is empty or needs escaping names no asset, so the
\* engine call made with it finds nothing
EngineCanSucceed(Params) ==
    LET AssetPath == GetStringField(Params, "asset_path") IN
    AssetPath # "" /\ ~NeedsEscape(AssetPath)

\* FUnrealMCPAssetRegistryCommands::GetAssetReferences / GetAssetDependencies:
\* the path is read and handed to the registry as it is; `found` is whether
\* the registry knows the path and lists something for it
GetAssetReferences(Params, found) ==
    LET AssetPath == GetStringField(Params, "asset_path")
        Referencers == IF found /\ EngineCanSucceed(Params) THEN <<"/Game/B">> ELSE <<>> IN
    Printf([success |-> TRUE,
            result |-> [referencers |-> Referencers, count |-> Len(Referencers)]], {})
GetAssetDependencies(Params, found) ==
    LET AssetPath == GetStringField(Params, "asset_path")
        Dependencies == IF found /\ EngineCanSucceed(Params) THEN <<"/Game/B">> ELSE <<>> IN
    Printf([success |-> TRUE,
            result |-> [dependencies |-> Dependencies, count |-> Len(Dependencies)]], {})
\* FUnrealMCPAssetRegistryCommands::HandleCommand
AssetRegistryHandleCommand(CommandType, Params, found) ==
    IF Equals(CommandType, "get_asset_references") THEN GetAssetReferences(Params, found)
    ELSE IF Equals(CommandType, "get_asset_dependencies") THEN GetAssetDependencies(Params, found)
    ELSE Printf([success |-> FALSE, error |-> "Unknown asset registry command: " \o CommandType],
                {CommandType})

\* FUnrealMCPContentBrowserCommands::ListAssets / SearchAssets: an empty Path
\* (SearchText) puts no condition on the assets; `found` is whether the
\* registry lists an asset.  The answer is a success either way.
ListAssets(Params, found) ==
    LET Path == GetStringField(Params, "path")
        AssetData == IF found THEN <<[name |-> "A", path |-> "/Game/A"]>> ELSE <<>> IN
    Printf([success |-> TRUE, result |-> [assets |-> AssetData, count |-> Len(AssetData)]], {})
SearchAssets(Params, found) ==
    LET SearchText == GetStringField(Params, "search_text")
        SearchResults == IF found THEN <<[name |-> "A", path |-> "/Game/A"]>> ELSE <<>> IN
    Printf([success |-> TRUE, result |-> [assets |-> SearchResults, count |-> Len(SearchResults)]], {})
\* FUnrealMCPContentBrowserCommands::GetAssetMetadata
GetAssetMetadata(Params, found) ==
    LET AssetPath == GetStringField(Params, "asset_path") IN
    IF ~(found /\ EngineCanSucceed(Params))
    THEN Printf([success |-> FALSE, error |-> "Asset not found: " \o AssetPath], {AssetPath})
    ELSE Printf([success |-> TRUE, result |-> [name |-> "A", path |-> AssetPath]], {})
\* FUnrealMCPContentBrowserCommands::HandleCommand
ContentBrowserHandleCommand(CommandType, Params, found) ==
    IF Equals(CommandType, "list_assets") THEN ListAssets(Params, found)
    ELSE IF Equals(CommandType, "get_asset_metadata") THEN GetAssetMetadata(Params, found)
    ELSE IF Equals(CommandType, "search_assets") THEN SearchAssets(Params, found)
    ELSE Printf([success |-> FALSE, error |-> "Unknown content browser command: " \o CommandType],
                {CommandType})

\* the parameter each level command reads first and refuses to go without
LevelParam(CommandType) ==
    IF Matches(CommandType, {"load_level", "create_streaming_level"}) THEN "level_path"
    ELSE "level_name"
\* ------------------------------------------------------------ editor world
\* the world the editor starts with: a map, no streaming levels.  A
\* streaming level is [package, visible].
StartWorld == [map |-> "/Game/Start", levels |-> <<>>]
\* what the engine does to one handler call: whether
\* GEditor->GetEditorWorldContext().World() gives a world, and whether the
\* engine call the handler makes works
HandlerEnvs == [hasWorld : BOOLEAN, ok : BOOLEAN]
\* what a handler leaves behind: the text it returns and the world
Answer(Response, W) == [Response |-> Response, World |-> W]
\* TArray::RemoveAt
RemoveAt(s, i) == SubSeq(s, 1, i - 1) \o SubSeq(s, i + 1, Len(s))
\* the indices of the streaming levels whose
\* GetWorldAssetPackageName() == LevelName
MatchingLevels(W, LevelName) ==
    {i \in 1..Len(W.levels) : Equals(W.levels[i].package, LevelName)}
Highest(S) == CHOOSE i \in S : \A j \in S : j <= i
Lowest(S) == CHOOSE i \in S : \A j \in S : i <= j

\* a parameter check that lets the empty string through
ParamMissingOnlyAbsent(Params, Field) == ~HasField(Params, Field)
\* !Params->TryGetStringField(Field, Value) || Value.IsEmpty()
ParamMissing(Params, Field) == ~HasField(Params, Field) \/ Params[Field] = ""
ParameterRequired(Field) ==
    Printf([success |-> FALSE, error |-> Field \o " parameter is required"], {})
NoActiveWorld == Printf([success |-> FALSE, error |-> "No active world found"], {})
\* LevelEditorSubsystem->NewLevel / LoadLevel with this path: it cannot work
\* for a path that is no package name
EngineOpens(env, Path) == env.ok /\ ~NeedsEscape(Path)

\* FUnrealMCPLevelCommands::CreateLevel
CreateLevel(Params, W, env) ==
    IF ParamMissing(Params, "level_name") THEN Answer(ParameterRequired("level_name"), W)
    ELSE LET LevelName == Params.level_name
             LevelPath == "/Game/" \o LevelName IN
         IF ~EngineOpens(env, LevelPath) \/ ~env.hasWorld
         THEN Answer(Printf([success |-> FALSE, error |-> "Failed to create level: " \o LevelName],
                            {LevelName}), W)
         ELSE Answer(Printf([success |-> TRUE,
                             result |-> [name |-> "PersistentLevel", num_actors |-> 0]], {}),
                     [map |-> LevelPath, levels |-> <<>>])
\* FUnrealMCPLevelCommands::SaveLevel
SaveLevel(Params, W, env) ==
    IF ~env.hasWorld THEN Answer(NoActiveWorld, W)
    ELSE IF ~env.ok
    THEN Answer(Printf([success |-> FALSE, error |-> "Failed to save level"], {}), W)
    ELSE Answer(Printf([success |-> TRUE, result |-> "Level saved: " \o W.map], {W.map}), W)
\* FUnrealMCPLevelCommands::LoadLevel
LoadLevel(Params, W, env) ==
    IF ParamMissing(Params, "level_path") THEN Answer(ParameterRequired("level_path"), W)
    ELSE LET LevelPath == Params.level_path IN
         IF ~EngineOpens(env, LevelPath)
         THEN Answer(Printf([success |-> FALSE, error |-> "Failed to load level: " \o LevelPath],
                            {LevelPath}), W)
         ELSE Answer(Printf([success |-> TRUE, result |-> "Level loaded: " \o LevelPath],
                            {LevelPath}),
                     [map |-> LevelPath, levels |-> <<>>])
\* FUnrealMCPLevelCommands::SetLevelVisibility: the first streaming level
\* with the package name gets the flag
SetLevelVisibility(Params, W, env) ==
    IF ParamMissing(Params, "level_name") THEN Answer(ParameterRequired("level_name"), W)
    ELSE LET LevelName == Params.level_name
             bVisible == IF HasField(Params, "visible") THEN Params.visible ELSE TRUE
             Found == MatchingLevels(W, LevelName) IN
         IF ~env.hasWorld THEN Answer(NoActiveWorld, W)
         ELSE IF Found = {}
         THEN Answer(Printf([success |-> FALSE,
                             error |-> "Failed to set visibility for level: " \o LevelName],
                            {LevelName}), W)
         ELSE Answer(Printf([success |-> TRUE,
                             result |-> "Set level " \o LevelName \o " visibility to "
                                        \o (IF bVisible THEN "visible" ELSE "hidden")],
                            {LevelName}),
                     [W EXCEPT !.levels[Lowest(Found)].visible = bVisible])
\* FUnrealMCPLevelCommands::CreateStreamingLevel: a new ULevelStreamingDynamic
\* with the package name is added at the end
CreateStreamingLevel(Params, W, env) ==
    IF ParamMissing(Params, "level_path") THEN Answer(ParameterRequired("level_path"), W)
    ELSE LET LevelPath == Params.level_path IN
         IF ~env.hasWorld THEN Answer(NoActiveWorld, W)
         ELSE Answer(Printf([success |-> TRUE,
                             result |-> "Created streaming level: " \o LevelPath], {LevelPath}),
                     [W EXCEPT !.levels = Append(@, [package |-> LevelPath, visible |-> FALSE])])
\* FUnrealMCPLevelCommands::LoadStreamingLevel: LevelEditorSubsystem->LoadLevel
LoadStreamingLevel(Params, W, env) ==
    IF ParamMissing(Params, "level_name") THEN Answer(ParameterRequired("level_name"), W)
    ELSE LET LevelName == Params.level_name IN
         IF ~EngineOpens(env, LevelName)
         THEN Answer(Printf([success |-> FALSE,
                             error |-> "Failed to load streaming level: " \o LevelName],
                            {LevelName}), W)
         ELSE Answer(Printf([success |-> TRUE,
                             result |-> "Loaded streaming level: " \o LevelName], {LevelName}),
                     [map |-> LevelName, levels |-> <<>>])
\* FUnrealMCPLevelCommands::UnloadStreamingLevel: the loop runs from the last
\* index down and removes the first streaming level it finds with the name
UnloadStreamingLevel(Params, W, env) ==
    IF ParamMissing(Params, "level_name") THEN Answer(ParameterRequired("level_name"), W)
    ELSE LET LevelName == Params.level_name
             Found == MatchingLevels(W, LevelName) IN
         IF ~env.hasWorld THEN Answer(NoActiveWorld, W)
         ELSE IF Found = {}
         THEN Answer(Printf([success |-> FALSE,
                             error |-> "Failed to unload streaming level: " \o LevelName],
                            {LevelName}), W)
         ELSE Answer(Printf([success |-> TRUE,
                             result |-> "Unloaded streaming level: " \o LevelName], {LevelName}),
                     [W EXCEPT !.levels = RemoveAt(@, Highest(Found))])

\* FUnrealMCPLevelCommands::HandleCommand
LevelHandleCommand(CommandType, Params, W, env) ==
    IF Equals(CommandType, "create_level") THEN CreateLevel(Params, W, env)
    ELSE IF Equals(CommandType, "save_level") THEN SaveLevel(Params, W, env)
    ELSE IF Equals(CommandType, "load_level") THEN LoadLevel(Params, W, env)
    ELSE IF Equals(CommandType, "set_level_visibility") THEN SetLevelVisibility(Params, W, env)
    ELSE IF Equals(CommandType, "create_streaming_level")
    THEN CreateStreamingLevel(Params, W, env)
    ELSE IF Equals(CommandType, "load_streaming_level") THEN LoadStreamingLevel(Params, W, env)
    ELSE IF Equals(CommandType, "unload_streaming_level")
    THEN UnloadStreamingLevel(Params, W, env)
    ELSE Answer(Printf([success |-> FALSE, error |-> "Unknown level command"], {}), W)

\* FUnrealMCPLandscapeCommands: the four handlers look for the world and,
\* but for create_landscape and get_landscape_info, for a landscape in it
\* (env.ok); none of them changes the world
CreateLandscape(Params, env) ==
    IF ~env.hasWorld THEN NoActiveWorld
    ELSE Printf([success |-> TRUE, result |-> [message |-> "Landscape creation initiated"]], {})
ModifyLandscape(Params, env) ==
    IF ~env.hasWorld THEN NoActiveWorld
    ELSE IF ~env.ok
    THEN Printf([success |-> FALSE, error |-> "No landscape found in current world"], {})
    ELSE Printf([success |-> TRUE, result |-> "Landscape modification completed"], {})
PaintLandscapeLayer(Params, env) ==
    IF ParamMissing(Params, "layer_name") THEN ParameterRequired("layer_name")
    ELSE IF ~env.hasWorld THEN NoActiveWorld
    ELSE IF ~env.ok
    THEN Printf([success |-> FALSE, error |-> "No landscape found in current world"], {})
    ELSE Printf([success |-> TRUE,
                 result |-> "Painted landscape layer: " \o Params.layer_name],
                {Params.layer_name})
GetLandscapeInfo(Params, env) ==
    IF ~env.hasWorld THEN NoActiveWorld
    ELSE Printf([success |-> TRUE, result |-> [landscapes |-> <<>>, count |-> 0]], {})
\* a HandleCommand from before get_landscape_info was added to it
LandscapeHandleCommandOld(CommandType, Params, env) ==
    IF Equals(CommandType, "create_landscape") THEN CreateLandscape(Params, env)
    ELSE IF Equals(CommandType, "modify_landscape") THEN ModifyLandscape(Params, env)
    ELSE IF Equals(CommandType, "paint_landscape_layer") THEN PaintLandscapeLayer(Params, env)
    ELSE Printf([success |-> FALSE, error |-> "Unknown landscape command"], {})
\* FUnrealMCPLandscapeCommands::HandleCommand
LandscapeHandleCommand(CommandType, Params, env) ==
    IF Equals(CommandType, "create_landscape") THEN CreateLandscape(Params, env)
    ELSE IF Equals(CommandType, "modify_landscape") THEN ModifyLandscape(Params, env)
    ELSE IF Equals(CommandType, "paint_landscape_layer") THEN PaintLandscapeLayer(Params, env)
    ELSE IF Equals(CommandType, "get_landscape_info") THEN GetLandscapeInfo(Params, env)
    ELSE Printf([success |-> FALSE, error |-> "Unknown landscape command"], {})

\* FUnrealMCPWorldCommands::GetCurrentLevelInfo
GetCurrentLevelInfo(Params, W, env) ==
    IF ~env.hasWorld THEN NoActiveWorld
    ELSE Printf([success |-> TRUE,
                 result |-> [world_name |-> W.map,
                             streaming_levels |->
                                 [i \in 1..Len(W.levels) |->
                                     [package_name |-> W.levels[i].package,
                                      is_visible |-> W.levels[i].visible]]]], {})
\* FUnrealMCPWorldCommands::HandleCommand
WorldHandleCommand(CommandType, Params, W, env) ==
    IF Equals(CommandType, "get_current_level_info") THEN GetCurrentLevelInfo(Params, W, env)
    ELSE Printf([success |-> FALSE, error |-> "Unknown world command"], {})

\* lines 329-388: the HandleCommand of the text family a command is routed
\* to, called on world W
TextHandleCommand(CommandType, Params, W, env) ==
    LET fam == Route(CommandType) IN
    IF fam = "Asset" THEN Answer(AssetHandleCommand(CommandType, Params, env.ok), W)
    ELSE IF fam = "ContentBrowser"
    THEN Answer(ContentBrowserHandleCommand(CommandType, Params, env.ok), W)
    ELSE IF fam = "AssetRegistry"
    THEN Answer(AssetRegistryHandleCommand(CommandType, Params, env.ok), W)
    ELSE IF fam = "Level" THEN LevelHandleCommand(CommandType, Params, W, env)
    ELSE IF fam = "Landscape" THEN Answer(LandscapeHandleCommand(CommandType, Params, env), W)
    ELSE Answer(WorldHandleCommand(CommandType, Params, W, env), W)

\* what a handler of an object family (Editor, Blueprint, BlueprintNode,
\* Project, UMG) may return: an object with or without a `success` flag,
\* carrying the request's parameters
ObjectHandlerResults(CommandType, Params) ==
    { [command |-> CommandType, params |-> Params],
      [success |-> TRUE, command |-> CommandType, params |-> Params],
      [success |-> FALSE, error |-> "Failed: " \o CommandType \o " " \o GetStringField(Params, "asset_path")],
      [success |-> FALSE] }
\* e.what() of the std::exception a handler may raise
ExceptionWhat == "std::exception"

\* -------------------------------------------------------------- envelope
\* a normalisation that takes a result for a success only when it says so
ResultSuccessNeedsFlag(ResultJson) ==
    IF HasField(ResultJson, "success") THEN ResultJson.success ELSE FALSE
\* lines 401-412: the success flag and error message read off the result
ResultSuccess(ResultJson) ==
    IF HasField(ResultJson, "success") THEN ResultJson.success ELSE TRUE
\* an error message that names no cause
ResultErrorMessageGeneric(ResultJson) == "Command failed"
ResultErrorMessage(ResultJson) ==
    IF HasField(ResultJson, "success") /\ ~ResultJson.success /\ HasField(ResultJson, "error")
    THEN ResultJson.error ELSE ""
\* lines 417 / 423: the status field set first
StatusOf(ResultJson) == IF ResultSuccess(ResultJson) THEN "success" ELSE "error"
\* a payload step that stamps a `success` flag onto the result it passes on
WithPayloadStamped(ResponseJson, ResultJson) ==
    IF ResultSuccess(ResultJson)
    THEN SetField(ResponseJson, "result", SetField(ResultJson, "success", TRUE))
    ELSE SetField(ResponseJson, "error", ResultErrorMessage(ResultJson))
\* a payload step that sets both fields whatever the status
WithPayloadBoth(ResponseJson, ResultJson) ==
    SetField(SetField(ResponseJson, "result", ResultJson),
             "error", ResultErrorMessage(ResultJson))
\* lines 418 / 424: the result or error field set second
WithPayload(ResponseJson, ResultJson) ==
    IF ResultSuccess(ResultJson)
    THEN SetField(ResponseJson, "result", ResultJson)
    ELSE SetField(ResponseJson, "error", ResultErrorMessage(ResultJson))
\* an unknown-command envelope that leaves the name out
UnknownCommandResponseNoName(CommandType) ==
    [status |-> "error", error |-> "Unknown command"]
\* lines 391-392: the unknown-command envelope
UnknownCommandResponse(CommandType) ==
    [status |-> "error", error |-> "Unknown command: " \o CommandType]
\* lines 429-430: the envelope of a caught std::exception
ExceptionResponse(what) == [status |-> "error", error |-> what]
\* a ping answer that echoes the command name
PingResultEcho == [message |-> "ping"]
\* lines 270-271
PingResult == [message |-> "pong"]


\* ------------------------------------------------------------------ state
VARIABLES
    callerPc,   \* per thread: "idle", "waiting" (blocked in Future.Get()) or
                \* "returned" (Get() gave the value; the call is about to return)
    cur,        \* per thread: the request of its current / last ExecuteCommand call
    ret,        \* per thread: the FString its last ExecuteCommand call returned
    queue,      \* the game thread's task queue (AsyncTask), oldest first
    executing,  \* the queued lambdas that have begun and not yet ended
    promise,    \* per request id: the TPromise/TFuture pair of that call
    outcome,    \* per request id: what the handler call of that request gave back
    trace,      \* the task-side events so far: begin, call, ret, end (with the id)
    nextId,     \* the id the next ExecuteCommand call gets
    crashed     \* "none", or how the process died

vars == <<callerPc, cur, ret, queue, executing, promise, outcome, trace, nextId, crashed>>

\* the members of UUnrealMCPBridge that StartServer and StopServer work on,
\* the sockets and threads behind them, and the game thread's position
\* inside a StartServer or StopServer call
VARIABLES
    bIsRunning,         \* the running flag
    ListenerSocket,     \* the member: a socket id, or nullptr
    ConnectionSocket,   \* the member: a socket id, or nullptr
    ServerThread,       \* the member: a thread id, or nullptr
    NewListenerSocket,  \* StartServer's local: a socket id, or nullptr
    sockets,            \* per socket created so far: "created", "bound",
                        \* "listening" or "closed" (its descriptor released)
    threadState,        \* per caller thread id: "none", "running", "stopping"
                        \* (Kill asked it to stop), "exited" or "deleted"
    lifePc,             \* "idle", or the next step of the call in progress
    call,               \* the StartServer / StopServer call in progress
    lastCall,           \* the last call that returned
    starts              \* number of StartServer calls so far

lifeVars == <<bIsRunning, ListenerSocket, ConnectionSocket, ServerThread, NewListenerSocket,
              sockets, threadState, lifePc, call, lastCall, starts>>

\* the editor world the level handlers work on, and the last call of a
\* family's HandleCommand made outside a queued task
VARIABLES
    EditorWorld,        \* the map that is open and the world's streaming levels
    handled             \* that call: its arguments, what it returned, and the
                        \* world it found

worldVars == <<EditorWorld, handled>>
allVars == <<vars, lifeVars, worldVars>>

\* lines 110-112: a null socket or thread pointer
nullptr == 0
\* number of StartServer calls in one behaviour: each may create one thread
MaxStarts == NumCallers
\* what the platform does to one StartServer call: every step works, or one
\* of them fails
StartFaults == {"no_subsystem", "no_socket", "bind_fails", "listen_fails", "no_thread"}
Environments == {"ok"} \cup StartFaults
NoCall == [op |-> "none"]
\* no HandleCommand call yet
NoHandled == [CommandType |-> ""]

Ids == 1..MaxRequests
NoReq == [none |-> TRUE]
NoRet == [unset |-> TRUE]
NoOutcome == [kind |-> "none"]
FreshPromise == [created |-> FALSE, owner |-> GameThread, set |-> FALSE, value |-> NoRet,
                 writes |-> 0, writers |-> {}, reads |-> 0, readers |-> {}]

Init ==
    /\ callerPc = [t \in Threads |-> "idle"]
    /\ cur = [t \in Threads |-> NoReq]
    /\ ret = [t \in Threads |-> NoRet]
    /\ queue = <<>>
    /\ executing = {}
    /\ promise = [i \in Ids |-> FreshPromise]
    /\ outcome = [i \in Ids |-> NoOutcome]
    /\ trace = <<>>
    /\ nextId = 1
    /\ crashed = "none"
    /\ bIsRunning = FALSE
    /\ ListenerSocket = nullptr
    /\ ConnectionSocket = nullptr
    /\ ServerThread = nullptr
    /\ NewListenerSocket = nullptr
    /\ sockets = <<>>
    /\ threadState = [t \in Callers |-> "none"]
    /\ lifePc = "idle"
    /\ call = NoCall
    /\ lastCall = NoCall
    /\ starts = 0
    /\ EditorWorld = StartWorld
    /\ handled = NoHandled

\* ----------------------------------------------------- ExecuteCommand entry
\* whether thread th is inside a queued lambda
InTask(th) == \E e \in executing : e.thread = th

\* lines 255-262: the Promise of the call is created and the lambda, which
\* captures CommandType, Params and the Promise, is queued for the game thread
Enqueue(t, CommandType, Params) ==
    /\ LET req == [id |-> nextId, caller |-> t, CommandType |-> CommandType, Params |-> Params] IN
        /\ cur' = [cur EXCEPT ![t] = req]
        /\ queue' = Append(queue, req)
    /\ promise' = [promise EXCEPT ![nextId] = [FreshPromise EXCEPT !.created = TRUE, !.owner = t]]
    /\ callerPc' = [callerPc EXCEPT ![t] = "waiting"]
    /\ nextId' = nextId + 1
    /\ UNCHANGED <<ret, executing, outcome, trace, crashed>>
    /\ UNCHANGED <<lifeVars, worldVars>>

\* a dispatcher that looks the name up first and answers an unknown name at
\* once, queuing nothing
SubmitLookupFirst(t, CommandType, Params) ==
    /\ crashed = "none"
    /\ callerPc[t] = "idle"
    /\ ~InTask(t)
    /\ nextId <= MaxRequests
    /\ IF Route(CommandType) = "unknown"
       THEN /\ cur' = [cur EXCEPT ![t] = [id |-> nextId, caller |-> t,
                                         CommandType |-> CommandType, Params |-> Params]]
            /\ ret' = [ret EXCEPT ![t] = Serialize(UnknownCommandResponse(CommandType))]
            /\ callerPc' = [callerPc EXCEPT ![t] = "returned"]
            /\ nextId' = nextId + 1
            /\ UNCHANGED <<queue, executing, promise, outcome, trace, crashed>>
            /\ UNCHANGED <<lifeVars, worldVars>>
       ELSE Enqueue(t, CommandType, Params)

\* lines 251-262 and the block at 439: every call, whatever its CommandType,
\* creates the Promise, queues the lambda and waits on the Future.  The
\* calling thread is not looked at.
Submit(t, CommandType, Params) ==
    /\ crashed = "none"
    /\ callerPc[t] = "idle"
    /\ ~InTask(t)
    /\ nextId <= MaxRequests
    /\ Enqueue(t, CommandType, Params)

\* ExecuteCommand called from a thread other than the game thread
ExecuteCommand(t) ==
    \E r \in SampleRequests : Submit(t, r.CommandType, r.Params)

\* ExecuteCommand called on the game thread itself, outside any task
ExecuteCommandOnGameThread ==
    \E r \in SampleRequests : Submit(GameThread, r.CommandType, r.Params)

\* ------------------------------------------------------- the queued lambda
\* the lambda handed to the worker pool (ENamedThreads::AnyThread)
TaskThreadAnyThread(req) == WorkerOf(req.id)
\* AsyncTask(ENamedThreads::GameThread, ...): the thread the lambda runs on
TaskThread(req) == GameThread

\* a queue drained newest first
NextTaskNewest(q) == Len(q)
\* the game thread takes its tasks oldest first
NextTask(q) == 1

\* a named thread runs one task at a time, and not while it is blocked
ThreadFree(th) ==
    /\ ~InTask(th)
    /\ th \in Threads => callerPc[th] = "idle"
    /\ th = GameThread => lifePc = "idle"

Without(q, i) == [j \in 1..(Len(q) - 1) |-> IF j < i THEN q[j] ELSE q[j + 1]]

\* the game thread's loop picks the lambda up; line 262
TaskBegin ==
    /\ crashed = "none"
    /\ queue # <<>>
    /\ LET i == NextTask(queue)
           req == queue[i]
           th == TaskThread(req) IN
        /\ ThreadFree(th)
        /\ queue' = Without(queue, i)
        /\ executing' = executing \cup
              {[id |-> req.id, CommandType |-> req.CommandType, Params |-> req.Params,
                thread |-> th, pc |-> "dispatch",
                ResultJson |-> NullPtr, ResponseJson |-> EmptyObject]}
        /\ trace' = Append(trace, <<"begin", req.id>>)
    /\ UNCHANGED <<callerPc, cur, ret, promise, outcome, nextId, crashed>>
    /\ UNCHANGED <<lifeVars, worldVars>>

Step(e, f) == executing' = (executing \ {e}) \cup {f}

\* lines 268-272: ping
DispatchPing(e) ==
    /\ Route(e.CommandType) = "ping"
    /\ Step(e, [e EXCEPT !.ResultJson = PingResult, !.pc = "normalise"])
    /\ outcome' = [outcome EXCEPT ![e.id] = [kind |-> "object", obj |-> PingResult]]
    /\ UNCHANGED trace

\* lines 274-388: a handler family's HandleCommand is entered
DispatchFamily(e) ==
    /\ Route(e.CommandType) \in Families
    /\ Step(e, [e EXCEPT !.pc = "handler"])
    /\ trace' = Append(trace, <<"call", e.id>>)
    /\ UNCHANGED outcome

\* lines 389-396: no name matched
DispatchUnknown(e) ==
    /\ Route(e.CommandType) = "unknown"
    /\ Step(e, [e EXCEPT !.ResponseJson = UnknownCommandResponse(e.CommandType),
                         !.pc = "publish"])
    /\ UNCHANGED <<outcome, trace>>

Dispatch ==
    /\ crashed = "none"
    /\ \E e \in executing :
        /\ e.pc = "dispatch"
        /\ \/ DispatchPing(e)
           \/ DispatchFamily(e)
           \/ DispatchUnknown(e)
    /\ UNCHANGED <<callerPc, cur, ret, queue, promise, nextId, crashed>>
    /\ UNCHANGED <<lifeVars, worldVars>>


\* lines 286-326: an object family's HandleCommand returns its object
ObjectHandlerReturns(e) ==
    /\ Route(e.CommandType) \in ObjectFamilies
    /\ \E r \in ObjectHandlerResults(e.CommandType, e.Params) :
        /\ Step(e, [e EXCEPT !.ResultJson = r, !.pc = "normalise"])
        /\ outcome' = [outcome EXCEPT ![e.id] = [kind |-> "object", obj |-> r]]
    /\ UNCHANGED EditorWorld

\* lines 427-431: a std::exception out of the handler is caught
HandlerThrows(e) ==
    /\ Route(e.CommandType) \in ObjectFamilies
    /\ Step(e, [e EXCEPT !.ResponseJson = ExceptionResponse(ExceptionWhat), !.pc = "publish"])
    /\ outcome' = [outcome EXCEPT ![e.id] = [kind |-> "threw"]]
    /\ UNCHANGED EditorWorld

\* lines 329-371: a text family's HandleCommand returns text, which is
\* deserialized into ResultJson (the result of Deserialize is not looked at)
AssetHandlerReturns(e) ==
    /\ Route(e.CommandType) \in TextFamilies
    /\ \E env \in HandlerEnvs :
        /\ (Route(e.CommandType) = "Asset" /\ env.ok) => EngineCanSucceed(e.Params)
        \* the asset handlers do not look for the world
        /\ Route(e.CommandType) \in {"Asset", "ContentBrowser", "AssetRegistry"} => env.hasWorld
        /\ LET Handled == TextHandleCommand(e.CommandType, e.Params, EditorWorld, env)
               rj == Deserialize(Handled.Response, e.ResultJson) IN
            /\ Step(e, [e EXCEPT !.ResultJson = rj, !.pc = "normalise"])
            /\ EditorWorld' = Handled.World
            /\ outcome' = [outcome EXCEPT ![e.id] =
                              IF rj = NullPtr THEN [kind |-> "unparsed"]
                              ELSE [kind |-> "object", obj |-> rj]]

HandlerReturn ==
    /\ crashed = "none"
    /\ \E e \in executing :
        /\ e.pc = "handler"
        /\ \/ ObjectHandlerReturns(e)
           \/ HandlerThrows(e)
           \/ AssetHandlerReturns(e)
        /\ trace' = Append(trace, <<"ret", e.id>>)
    /\ UNCHANGED <<callerPc, cur, ret, queue, promise, nextId, crashed>>
    /\ UNCHANGED <<lifeVars, handled>>

\* lines 401-417 / 423: ResultJson->HasField(...) and the status field.
\* ResultJson is dereferenced unchecked: on a null pointer a build with
\* checks stops in TSharedPtr's check(IsValid()), a build without them
\* reads through the null pointer; no std::exception is raised either way.
NormaliseStatus ==
    /\ crashed = "none"
    /\ \E e \in executing :
        /\ e.pc = "normalise"
        /\ IF e.ResultJson = NullPtr
           THEN /\ crashed' \in {"check_failed", "access_violation"}
                /\ UNCHANGED executing
           ELSE /\ Step(e, [e EXCEPT !.ResponseJson = SetField(e.ResponseJson, "status", StatusOf(e.ResultJson)),
                                     !.pc = "payload"])
                /\ UNCHANGED crashed
    /\ UNCHANGED <<callerPc, cur, ret, queue, promise, outcome, trace, nextId>>
    /\ UNCHANGED <<lifeVars, worldVars>>

\* lines 418 / 424: the result or the error field
NormalisePayload ==
    /\ crashed = "none"
    /\ \E e \in executing :
        /\ e.pc = "payload"
        /\ Step(e, [e EXCEPT !.ResponseJson = WithPayload(e.ResponseJson, e.ResultJson),
                             !.pc = "publish"])
    /\ UNCHANGED <<callerPc, cur, ret, queue, promise, outcome, trace, nextId, crashed>>
    /\ UNCHANGED <<lifeVars, worldVars>>

\* Promise.SetValue placed anywhere earlier in the lambda
PublishPointEarly(e) == e.pc \in {"dispatch", "handler", "normalise", "payload", "publish"}
\* where in the lambda Promise.SetValue stands: after the response is built
PublishPoint(e) == e.pc = "publish"

\* one Promise shared by the calls (a member instead of a capture)
PromiseOfLatest(e) == nextId - 1
\* the Promise the lambda captured: the one of its own request (moved in)
PromiseOf(e) == e.id

\* lines 394-398 and 433-436: serialize the response, fulfil the Promise,
\* and the lambda ends
Publish ==
    /\ crashed = "none"
    /\ \E e \in executing :
        /\ PublishPoint(e)
        /\ LET k == PromiseOf(e) IN
            promise' = [promise EXCEPT ![k].set = TRUE,
                                       ![k].value = Serialize(e.ResponseJson),
                                       ![k].writes = @ + 1,
                                       ![k].writers = @ \cup {e.thread}]
        /\ executing' = executing \ {e}
        /\ trace' = Append(trace, <<"end", e.id>>)
    /\ UNCHANGED <<callerPc, cur, ret, queue, outcome, nextId, crashed>>
    /\ UNCHANGED <<lifeVars, worldVars>>

\* line 439: Future.Get() returns once the Promise of this call is fulfilled
FutureGet(t) ==
    /\ crashed = "none"
    /\ callerPc[t] = "waiting"
    /\ LET k == cur[t].id IN
        /\ promise[k].set
        /\ ret' = [ret EXCEPT ![t] = promise[k].value]
        /\ promise' = [promise EXCEPT ![k].reads = @ + 1, ![k].readers = @ \cup {t}]
    /\ callerPc' = [callerPc EXCEPT ![t] = "returned"]
    /\ UNCHANGED <<cur, queue, executing, outcome, trace, nextId, crashed>>
    /\ UNCHANGED <<lifeVars, worldVars>>

\* line 440: ExecuteCommand returns; its Future goes out of scope
Return(t) ==
    /\ crashed = "none"
    /\ callerPc[t] = "returned"
    /\ callerPc' = [callerPc EXCEPT ![t] = "idle"]
    /\ cur' = [cur EXCEPT ![t] = NoReq]
    /\ ret' = [ret EXCEPT ![t] = NoRet]
    /\ promise' = [promise EXCEPT ![cur[t].id] = FreshPromise]
    /\ outcome' = [outcome EXCEPT ![cur[t].id] = NoOutcome]
    /\ UNCHANGED <<queue, executing, trace, nextId, crashed>>
    /\ UNCHANGED <<lifeVars, worldVars>>

Next ==
    \/ \E t \in Callers : ExecuteCommand(t)
    \/ TaskBegin
    \/ Dispatch
    \/ HandlerReturn
    \/ NormaliseStatus
    \/ NormalisePayload
    \/ Publish
    \/ \E t \in Threads : FutureGet(t)
    \/ \E t \in Threads : Return(t)

\* ExecuteCommand is called by threads other than the game thread
Spec == Init /\ [][Next]_vars

\* ... and by the game thread too
NextOwnerCall ==
    \/ ExecuteCommandOnGameThread
    \/ Next

SpecOwnerCall == Init /\ [][NextOwnerCall]_vars

\* the commands that have a required parameter, with that parameter
RequiredParam(CommandType) ==
    IF CommandType \in {"load_asset", "get_asset_metadata", "get_asset_references",
                        "get_asset_dependencies"} THEN "asset_path"
    ELSE IF CommandType = "list_assets" THEN "path"
    ELSE IF CommandType = "search_assets" THEN "search_text"
    ELSE LevelParam(CommandType)
WithRequiredParam ==
    {"load_asset", "get_asset_metadata", "get_asset_references", "get_asset_dependencies",
     "list_assets", "search_assets"} \cup (LevelNames \ {"save_level"})

\* requests for these commands: with the parameter, with other fields only,
\* and with no field at all
ParamRequests ==
    { [CommandType |-> c, Params |-> p] :
        c \in WithRequiredParam,
        p \in { EmptyObject, [type_filter |-> "StaticMesh"] } }
    \cup { [CommandType |-> c, Params |-> SetField(EmptyObject, RequiredParam(c), "/Game/A")] :
             c \in WithRequiredParam }

\* requests whose command name is a registered name in other letter case
CaseRequests ==
    { [CommandType |-> "PING", Params |-> EmptyObject],
      [CommandType |-> "Load_Asset", Params |-> [asset_path |-> "/Game/A"]],
      [CommandType |-> "Get_Asset_References", Params |-> [asset_path |-> "/Game/A"]] }

\* ExecuteCommand called with one of these requests, one call at a time
ExecuteCommandParams ==
    \E t \in Callers : \E r \in ParamRequests \cup CaseRequests :
        /\ \A u \in Callers : t <= u
        /\ Submit(t, r.CommandType, r.Params)

NextParams ==
    \/ ExecuteCommandParams
    \/ TaskBegin
    \/ Dispatch
    \/ HandlerReturn
    \/ NormaliseStatus
    \/ NormalisePayload
    \/ Publish
    \/ \E t \in Threads : FutureGet(t)
    \/ \E t \in Threads : Return(t)

SpecParams == Init /\ [][NextParams]_allVars


\* ------------------------------------------- StartServer and StopServer
\* StartServer and StopServer are called on the game thread (Initialize,
\* Deinitialize), one call at a time and never from inside a queued task.
GameThreadFree == crashed = "none" /\ ThreadFree(GameThread)

\* a call returns: both functions are void; what they tell is a log line.
\* StartServer's local NewListenerSocket goes out of scope.
Complete(c, log) ==
    /\ lifePc' = "idle"
    /\ call' = NoCall
    /\ lastCall' = [op |-> c.op, env |-> c.env, log |-> log, returns |-> "void",
                    prev |-> lastCall.op]
    /\ NewListenerSocket' = nullptr

\* the listening port is held by another socket of this process
PortInUse ==
    \E i \in 1..Len(sockets) :
        i # NewListenerSocket /\ sockets[i] \in {"bound", "listening"}

\* a socket handle given back without closing the descriptor
DestroySocketLeak(socks, s) == socks
\* ISocketSubsystem::DestroySocket, or the last TSharedPtr going away: the
\* descriptor is closed.  (The FMCPServerRunnable keeps its own TSharedPtr
\* to the listener socket, so Reset() after DestroySocket frees nothing twice.)
DestroySocket(socks, s) == [socks EXCEPT ![s] = "closed"]

\* a StartServer without its running check
AlreadyRunningIgnored == FALSE
\* lines 156-160: the running check of StartServer
AlreadyRunning == bIsRunning

\* lines 154-168: the running check and the socket subsystem
StartServerBegin(environment) ==
    /\ GameThreadFree
    /\ starts < MaxStarts
    /\ starts' = starts + 1
    /\ LET c == [op |-> "StartServer", env |-> environment, log |-> ""] IN
        IF AlreadyRunning
        THEN Complete(c, "Server is already running")
        ELSE IF environment = "no_subsystem"
        THEN Complete(c, "Failed to get socket subsystem")
        ELSE /\ lifePc' = "start_create"
             /\ call' = c
             /\ UNCHANGED <<lastCall, NewListenerSocket>>
    /\ UNCHANGED <<bIsRunning, ListenerSocket, ConnectionSocket, ServerThread,
                   sockets, threadState>>
    /\ UNCHANGED <<vars, worldVars>>

\* lines 170-180: CreateSocket into the local NewListenerSocket
StartCreateSocket ==
    /\ crashed = "none"
    /\ lifePc = "start_create"
    /\ IF call.env = "no_socket"
       THEN /\ Complete(call, "Failed to create listener socket")
            /\ UNCHANGED sockets
       ELSE /\ sockets' = Append(sockets, "created")
            /\ NewListenerSocket' = Len(sockets) + 1
            /\ lifePc' = "start_bind"
            /\ UNCHANGED <<call, lastCall>>
    /\ UNCHANGED <<bIsRunning, ListenerSocket, ConnectionSocket, ServerThread,
                   threadState, starts>>
    /\ UNCHANGED <<vars, worldVars>>

\* lines 182-188: Bind; on failure the local pointer is the socket's last owner
StartBind ==
    /\ crashed = "none"
    /\ lifePc = "start_bind"
    /\ IF call.env = "bind_fails" \/ PortInUse
       THEN /\ sockets' = DestroySocket(sockets, NewListenerSocket)
            /\ Complete(call, "Failed to bind listener socket")
       ELSE /\ sockets' = [sockets EXCEPT ![NewListenerSocket] = "bound"]
            /\ lifePc' = "start_listen"
            /\ UNCHANGED <<call, lastCall, NewListenerSocket>>
    /\ UNCHANGED <<bIsRunning, ListenerSocket, ConnectionSocket, ServerThread,
                   threadState, starts>>
    /\ UNCHANGED <<vars, worldVars>>

\* lines 190-199: Listen, then the member and the flag are set
StartListen ==
    /\ crashed = "none"
    /\ lifePc = "start_listen"
    /\ IF call.env = "listen_fails"
       THEN /\ sockets' = DestroySocket(sockets, NewListenerSocket)
            /\ Complete(call, "Failed to start listening")
            /\ UNCHANGED <<bIsRunning, ListenerSocket>>
       ELSE /\ sockets' = [sockets EXCEPT ![NewListenerSocket] = "listening"]
            /\ ListenerSocket' = NewListenerSocket
            /\ bIsRunning' = TRUE
            /\ lifePc' = "start_thread"
            /\ UNCHANGED <<call, lastCall, NewListenerSocket>>
    /\ UNCHANGED <<ConnectionSocket, ServerThread, threadState, starts>>
    /\ UNCHANGED <<vars, worldVars>>

\* lines 217-224: StopServer's running check, entered by call c
StopServerEntry(c) ==
    IF ~bIsRunning
    THEN /\ Complete(c, c.log)
         /\ UNCHANGED bIsRunning
    ELSE /\ bIsRunning' = FALSE
         /\ lifePc' = "stop_thread"
         /\ call' = c
         /\ UNCHANGED <<lastCall, NewListenerSocket>>

\* the id of the thread FRunnableThread::Create starts next
NextThreadId == CHOOSE t \in Callers : threadState[t] = "none" /\
                                       \A u \in Callers : u < t => threadState[u] # "none"

\* a StartServer that only logs when no thread could be created
StartThreadNoCleanup ==
    /\ crashed = "none"
    /\ lifePc = "start_thread"
    /\ IF call.env = "no_thread"
       THEN /\ ServerThread' = nullptr
            /\ Complete([call EXCEPT !.log = "Failed to create server thread"],
                        "Failed to create server thread")
            /\ UNCHANGED threadState
       ELSE /\ \E t \in Callers : threadState[t] = "none"
            /\ ServerThread' = NextThreadId
            /\ threadState' = [threadState EXCEPT ![NextThreadId] = "running"]
            /\ Complete(call, "Server started")
    /\ UNCHANGED <<bIsRunning, ListenerSocket, ConnectionSocket, sockets, starts>>
    /\ UNCHANGED <<vars, worldVars>>

\* lines 201-213: FRunnableThread::Create; on failure StopServer is called
StartThread ==
    /\ crashed = "none"
    /\ lifePc = "start_thread"
    /\ IF call.env = "no_thread"
       THEN /\ ServerThread' = nullptr
            /\ StopServerEntry([call EXCEPT !.log = "Failed to create server thread"])
            /\ UNCHANGED threadState
       ELSE /\ \E t \in Callers : threadState[t] = "none"
            /\ ServerThread' = NextThreadId
            /\ threadState' = [threadState EXCEPT ![NextThreadId] = "running"]
            /\ Complete(call, "Server started")
            /\ UNCHANGED bIsRunning
    /\ UNCHANGED <<ListenerSocket, ConnectionSocket, sockets, starts>>
    /\ UNCHANGED <<vars, worldVars>>

\* lines 217-224: StopServer is called
StopServerBegin ==
    /\ GameThreadFree
    /\ StopServerEntry([op |-> "StopServer", env |-> "ok", log |-> ""])
    /\ UNCHANGED <<ListenerSocket, ConnectionSocket, ServerThread, sockets,
                   threadState, starts>>
    /\ UNCHANGED <<vars, worldVars>>

\* a StopServer that goes on to the sockets without taking the thread down
StopKillSocketsFirst ==
    /\ crashed = "none"
    /\ lifePc = "stop_thread"
    /\ lifePc' = "stop_connection"
    /\ UNCHANGED <<bIsRunning, ListenerSocket, ConnectionSocket, ServerThread,
                   NewListenerSocket, sockets, threadState, call, lastCall, starts>>
    /\ UNCHANGED <<vars, worldVars>>

\* lines 227-229: Kill(true) tells the thread to stop ...
StopKill ==
    /\ crashed = "none"
    /\ lifePc = "stop_thread"
    /\ IF ServerThread = nullptr
       THEN /\ lifePc' = "stop_connection"
            /\ UNCHANGED threadState
       ELSE /\ lifePc' = "stop_join"
            /\ threadState' = [threadState EXCEPT ![ServerThread] =
                                  IF @ = "running" THEN "stopping" ELSE @]
    /\ UNCHANGED <<bIsRunning, ListenerSocket, ConnectionSocket, ServerThread,
                   NewListenerSocket, sockets, call, lastCall, starts>>
    /\ UNCHANGED <<vars, worldVars>>

\* a Kill that does not wait for the thread
ThreadJoinedNoWait(t) == TRUE
\* ... and, bShouldWait being true, waits until the thread has ended
ThreadJoined(t) == threadState[t] = "exited"

\* a StopServer that deletes the thread object and keeps the pointer
StopJoinKeepPointer ==
    /\ crashed = "none"
    /\ lifePc = "stop_join"
    /\ ThreadJoined(ServerThread)
    /\ threadState' = [threadState EXCEPT ![ServerThread] = "deleted"]
    /\ lifePc' = "stop_connection"
    /\ UNCHANGED <<bIsRunning, ListenerSocket, ConnectionSocket, ServerThread,
                   NewListenerSocket, sockets, call, lastCall, starts>>
    /\ UNCHANGED <<vars, worldVars>>

\* lines 229-231: Kill(true) returns, the thread object is deleted
StopJoin ==
    /\ crashed = "none"
    /\ lifePc = "stop_join"
    /\ ThreadJoined(ServerThread)
    /\ threadState' = [threadState EXCEPT ![ServerThread] = "deleted"]
    /\ ServerThread' = nullptr
    /\ lifePc' = "stop_connection"
    /\ UNCHANGED <<bIsRunning, ListenerSocket, ConnectionSocket, NewListenerSocket,
                   sockets, call, lastCall, starts>>
    /\ UNCHANGED <<vars, worldVars>>

\* lines 234-239: the connection socket, if there is one
StopConnectionSocket ==
    /\ crashed = "none"
    /\ lifePc = "stop_connection"
    /\ IF ConnectionSocket # nullptr
       THEN /\ sockets' = DestroySocket(sockets, ConnectionSocket)
            /\ ConnectionSocket' = nullptr
       ELSE UNCHANGED <<sockets, ConnectionSocket>>
    /\ lifePc' = "stop_listener"
    /\ UNCHANGED <<bIsRunning, ListenerSocket, ServerThread, NewListenerSocket,
                   threadState, call, lastCall, starts>>
    /\ UNCHANGED <<vars, worldVars>>

\* lines 241-247: the listener socket, if there is one; StopServer returns
\* (to StartServer's line 212 when it was called from there)
StopListenerSocket ==
    /\ crashed = "none"
    /\ lifePc = "stop_listener"
    /\ IF ListenerSocket # nullptr
       THEN /\ sockets' = DestroySocket(sockets, ListenerSocket)
            /\ ListenerSocket' = nullptr
       ELSE UNCHANGED <<sockets, ListenerSocket>>
    /\ Complete(call, IF call.op = "StopServer" THEN "Server stopped" ELSE call.log)
    /\ UNCHANGED <<bIsRunning, ConnectionSocket, ServerThread, threadState, starts>>
    /\ UNCHANGED <<vars, worldVars>>

\* the server thread: it takes one request of its connection at a time and
\* calls ExecuteCommand with it
ServerThreadRequest(t) ==
    /\ threadState[t] = "running"
    /\ ExecuteCommand(t)

\* the error envelope the connection handler writes for a message that is
\* not well-formed JSON
MalformedResponse == [status |-> "error", error |-> "Invalid JSON"]

\* a connection handler that drops a message it cannot parse and closes
ServerThreadMalformedCloses(t) ==
    /\ crashed = "none"
    /\ threadState[t] = "running"
    /\ callerPc[t] = "idle"
    /\ nextId <= MaxRequests
    /\ trace' = Append(trace, <<"malformed", nextId>>)
    /\ nextId' = nextId + 1
    /\ threadState' = [threadState EXCEPT ![t] = "stopping"]
    /\ UNCHANGED <<callerPc, cur, ret, queue, executing, promise, outcome, crashed>>
    /\ UNCHANGED <<bIsRunning, ListenerSocket, ConnectionSocket, ServerThread,
                   NewListenerSocket, sockets, lifePc, call, lastCall, starts>>
    /\ UNCHANGED worldVars

\* the server thread reads a message that is not well-formed JSON: nothing
\* is dispatched, one error envelope is the response to write, and the
\* thread goes on with its connection
ServerThreadMalformed(t) ==
    /\ crashed = "none"
    /\ threadState[t] = "running"
    /\ callerPc[t] = "idle"
    /\ nextId <= MaxRequests
    /\ cur' = [cur EXCEPT ![t] = [id |-> nextId, caller |-> t, malformed |-> TRUE]]
    /\ ret' = [ret EXCEPT ![t] = Serialize(MalformedResponse)]
    /\ callerPc' = [callerPc EXCEPT ![t] = "returned"]
    /\ trace' = Append(trace, <<"malformed", nextId>>)
    /\ nextId' = nextId + 1
    /\ UNCHANGED <<queue, executing, promise, outcome, crashed>>
    /\ UNCHANGED <<lifeVars, worldVars>>

\* the server thread, asked to stop, leaves its loop between two requests
ServerThreadExit(t) ==
    /\ crashed = "none"
    /\ threadState[t] = "stopping"
    /\ callerPc[t] = "idle"
    /\ threadState' = [threadState EXCEPT ![t] = "exited"]
    /\ UNCHANGED <<bIsRunning, ListenerSocket, ConnectionSocket, ServerThread,
                   NewListenerSocket, sockets, lifePc, call, lastCall, starts>>
    /\ UNCHANGED <<vars, worldVars>>

\* the bridge with its server: ExecuteCommand is called by the server thread
\* that StartServer created
NextServer ==
    \/ \E environment \in Environments : StartServerBegin(environment)
    \/ StartCreateSocket
    \/ StartBind
    \/ StartListen
    \/ StartThread
    \/ StopServerBegin
    \/ StopKill
    \/ StopJoin
    \/ StopConnectionSocket
    \/ StopListenerSocket
    \/ \E t \in Callers : ServerThreadRequest(t)
    \/ \E t \in Callers : ServerThreadMalformed(t)
    \/ \E t \in Callers : ServerThreadExit(t)
    \/ TaskBegin
    \/ Dispatch
    \/ HandlerReturn
    \/ NormaliseStatus
    \/ NormalisePayload
    \/ Publish
    \/ \E t \in Threads : FutureGet(t)
    \/ \E t \in Threads : Return(t)

SpecServer == Init /\ [][NextServer]_allVars

\* ------------------------------------------------- the handlers on the world
\* lines 329-388 for one request on the game thread: the family's
\* HandleCommand is called on the editor world and returns
HandleCommandCalled(r, env) ==
    /\ crashed = "none"
    /\ Route(r.CommandType) \in TextFamilies
    /\ \E H \in {TextHandleCommand(r.CommandType, r.Params, EditorWorld, env)} :
        /\ Len(H.World.levels) <= MaxLevels
        /\ EditorWorld' = H.World
        /\ handled' = [CommandType |-> r.CommandType, Params |-> r.Params, env |-> env,
                       Response |-> H.Response, before |-> EditorWorld]
    /\ UNCHANGED <<vars, lifeVars>>

\* the calls of the level handlers: each validating command without its
\* parameter and with an empty one; the map-changing commands with a name;
\* streaming levels of two packages created, re-flagged and unloaded, one
\* unload with a name that has a quote in it; save_level
LevelRequests ==
    { [CommandType |-> c, Params |-> p] :
        c \in LevelNames \ {"save_level"},
        p \in {EmptyObject, [level_name |-> ""], [level_path |-> ""]} }
    \cup { [CommandType |-> "create_level", Params |-> [level_name |-> "A"]],
           [CommandType |-> "load_level", Params |-> [level_path |-> "/Game/A"]],
           [CommandType |-> "load_streaming_level", Params |-> [level_name |-> "/Game/A"]],
           [CommandType |-> "create_streaming_level", Params |-> [level_path |-> "/Game/A"]],
           [CommandType |-> "create_streaming_level", Params |-> [level_path |-> "/Game/B"]],
           [CommandType |-> "set_level_visibility", Params |-> [level_name |-> "/Game/A"]],
           [CommandType |-> "set_level_visibility",
            Params |-> [level_name |-> "/Game/A", visible |-> FALSE]],
           [CommandType |-> "unload_streaming_level", Params |-> [level_name |-> "/Game/A"]],
           [CommandType |-> "unload_streaming_level", Params |-> [level_name |-> "/Game/B"]],
           [CommandType |-> "unload_streaming_level", Params |-> [level_name |-> "/Game/q\"t"]],
           [CommandType |-> "save_level", Params |-> EmptyObject] }
\* the engine conditions a level command looks at
LevelEnvs(CommandType) ==
    IF CommandType \in {"create_level", "load_level", "load_streaming_level"}
    THEN {env \in HandlerEnvs : env.hasWorld}
    ELSE IF CommandType = "save_level" THEN HandlerEnvs
    ELSE {env \in HandlerEnvs : env.ok}

LevelCommandCalled ==
    \E r \in LevelRequests : \E env \in LevelEnvs(r.CommandType) : HandleCommandCalled(r, env)

\* the level handlers called one after another on the editor world
SpecLevel == Init /\ [][LevelCommandCalled]_allVars

\* the names ExecuteCommand is called with: every registered name, three in
\* other letter case, and one that is not registered
DispatchNames ==
    RegisteredNames \cup {"PING", "Load_Asset", "Get_Asset_References", "does_not_exist"}
DispatchRequests ==
    [CommandType : DispatchNames,
     Params : {EmptyObject, [asset_path |-> "/Game/A", layer_name |-> "Grass"]}]

DispatchedToTextFamily ==
    \E r \in DispatchRequests : \E env \in HandlerEnvs : HandleCommandCalled(r, env)

\* the text families' HandleCommand called with every name the chain of
\* ExecuteCommand sends them
SpecDispatch == Init /\ [][DispatchedToTextFamily]_allVars


\* ------------------------------------------------------------ properties
Happened(ev, k) == \E i \in 1..Len(trace) : trace[i] = <<ev, k>>
Returned(t) == callerPc[t] = "returned"
Waiting(t) == callerPc[t] = "waiting"
\* a response with its status and the field that goes with it
CompleteEnvelope(o) ==
    /\ HasField(o, "status")
    /\ o.status \in {"success", "error"}
    /\ o.status = "success" => HasField(o, "result")
    /\ o.status = "error" => HasField(o, "error")

\* C1: the Promise of a call is fulfilled only after the lambda has built the
\* whole response, and when a handler was called only after that call has
\* returned or its exception was caught; a caller that came back from
\* Future.Get() holds the value the Promise was given, a complete envelope.
C1_PublishedAfterHandlerReturned ==
    /\ \A k \in Ids :
        promise[k].set =>
            /\ promise[k].value.wellformed
            /\ CompleteEnvelope(promise[k].value.denotes)
            /\ Happened("begin", k)
            /\ Happened("call", k) => Happened("ret", k)
            /\ \A e \in executing : e.id # k
    /\ \A t \in Threads :
        Returned(t) =>
            /\ promise[cur[t].id].set
            /\ ret[t] = promise[cur[t].id].value
            /\ Route(cur[t].CommandType) \in Families => Happened("ret", cur[t].id)

\* C1 witness: a caller is back from Future.Get() with the response of a
\* request whose handler was called and has returned
C1_Witness ==
    \E t \in Callers :
        /\ Returned(t)
        /\ Route(cur[t].CommandType) \in Families
        /\ Happened("ret", cur[t].id)
        /\ ret[t].denotes.status = "success"

Envelope(ResultJson) == WithPayload([status |-> StatusOf(ResultJson)], ResultJson)
\* every response text the bridge can give for a request with this
\* CommandType and these Params
ResponsesFor(CommandType, Params) ==
    LET fam == Route(CommandType) IN
    IF fam = "ping" THEN {Serialize(Envelope(PingResult))}
    ELSE IF fam = "unknown" THEN {Serialize(UnknownCommandResponse(CommandType))}
    ELSE IF fam \in ObjectFamilies
    THEN {Serialize(Envelope(r)) : r \in ObjectHandlerResults(CommandType, Params)}
         \cup {Serialize(ExceptionResponse(ExceptionWhat))}
    ELSE {Serialize(Envelope(AssetHandleCommand(CommandType, Params, l).denotes)) :
             l \in {b \in BOOLEAN : AssetHandleCommand(CommandType, Params, b).wellformed}}

\* the part of C3 that is about cross-talk alone: a caller that is back holds
\* a response made for its own CommandType and Params
C3_NoCrossTalk ==
    \A t \in Callers :
        Returned(t) => ret[t] \in ResponsesFor(cur[t].CommandType, cur[t].Params)

\* C3: when every thread other than the game thread has called ExecuteCommand
\* and the calls are in flight together, every call completes (no caller is
\* left waiting in a process that can no longer serve it) and each caller
\* gets the response made for its own CommandType and Params.
C3_AllCallsCompleteWithOwnResult ==
    /\ (\A t \in Callers : cur[t] # NoReq) =>
            (\A t \in Callers : Waiting(t) => crashed = "none")
    /\ C3_NoCrossTalk

\* C4: handlers run on the game thread only and one at a time: at most one
\* queued lambda is between its begin and its end, it runs on the game
\* thread, and at most one handler call is open.
C4_OneHandlerOnGameThread ==
    /\ Cardinality(executing) <= 1
    /\ \A e \in executing : e.thread = GameThread
    /\ Cardinality({k \in Ids : Happened("call", k) /\ ~Happened("ret", k)}) <= 1
    /\ Cardinality({k \in Ids : Happened("begin", k) /\ ~Happened("end", k)}) <= 1

\* C4 witness: a handler is executing while another request waits in the queue
C4_Witness ==
    /\ \E e \in executing : e.pc = "handler" /\ e.thread = GameThread
    /\ queue # <<>>

\* C5: the game thread runs the queued lambdas in submission order (ids are
\* given in the order of queuing): when the lambda of a request begins, the
\* lambda of every request queued before it has ended, so the earlier
\* request's handler has finished before the later one's starts.
C5_FifoOrder ==
    \A i \in 1..Len(trace) :
        trace[i][1] \in {"begin", "call"} =>
            \A k \in 1..(trace[i][2] - 1) :
                /\ \E j \in 1..(i - 1) : trace[j] = <<"end", k>>
                /\ Happened("call", k) => \E j \in 1..(i - 1) : trace[j] = <<"ret", k>>

\* C5 witness: the handler of the second request runs after the lambda of
\* the first has ended, while the first caller is still inside its call
C5_Witness ==
    /\ Happened("call", 1) /\ Happened("end", 1)
    /\ \E e \in executing : e.id = 2 /\ e.pc = "handler"
    /\ \E t \in Callers : Waiting(t) /\ cur[t].id = 1

\* C6: a call of ExecuteCommand made on the game thread is rejected: the game
\* thread never blocks in Future.Get() on a lambda only it can run.
C6_OwnerCallRejected ==
    callerPc[GameThread] # "waiting"

\* C7: a fault inside the lambda (a handler exception, a null or unparsable
\* handler result) never escapes the lambda; it becomes a status="error"
\* envelope that the caller receives.
C7_FaultBecomesErrorEnvelope ==
    /\ crashed = "none"
    /\ \A t \in Threads :
        (Returned(t) /\ outcome[cur[t].id].kind \in {"threw", "unparsed"})
            => ret[t].denotes.status = "error"


InQueue(k) == \E i \in 1..Len(queue) : queue[i].id = k
Unknown(t) == cur[t] # NoReq /\ Route(cur[t].CommandType) = "unknown"

C9_UnknownCommandEnvelope ==
    \A t \in Callers :
        (Unknown(t) /\ Returned(t)) =>
            /\ ret[t].wellformed
            /\ ret[t].denotes = [status |-> "error",
                                 error |-> "Unknown command: " \o cur[t].CommandType]
            /\ ~HasField(ret[t].denotes, "result")
            /\ ~Happened("call", cur[t].id)
            /\ outcome[cur[t].id] = NoOutcome

\* C9 witness: a caller is back with the answer to "does_not_exist"
C9_Witness ==
    \E t \in Callers :
        /\ Returned(t)
        /\ cur[t].CommandType = "does_not_exist"
        /\ ret[t].denotes.error = "Unknown command: does_not_exist"

\* C10: for a registered command name the envelope has status "success" if
\* and only if the handler gave back a result object that does not carry a
\* `success` field equal to false.
C10_SuccessIffNoFalseFlag ==
    \A t \in Callers :
        (Returned(t) /\ cur[t].CommandType \in RegisteredNames) =>
            LET o == outcome[cur[t].id] IN
            (ret[t].denotes.status = "success")
                <=> (/\ o.kind = "object"
                     /\ ~(HasField(o.obj, "success") /\ o.obj.success = FALSE))

\* C10 witness: a handler result with success=false came back as an error
\* envelope to its caller
C10_Witness ==
    \E t \in Callers :
        /\ Returned(t)
        /\ cur[t].CommandType \in RegisteredNames
        /\ outcome[cur[t].id].kind = "object"
        /\ HasField(outcome[cur[t].id].obj, "success")
        /\ outcome[cur[t].id].obj.success = FALSE
        /\ ret[t].denotes.status = "error"

\* the handler of t's request gave back a result object
HasResultObject(t) == cur[t] # NoReq /\ outcome[cur[t].id].kind = "object"
\* the result object the handler of t's request gave back
ResultOf(t) == outcome[cur[t].id].obj
\* the handler's object is pre-wrapped: {"success":true,"result":X}
Prewrapped(obj) == HasField(obj, "success") /\ obj.success = TRUE /\ HasField(obj, "result")

\* C11: when a handler returns its own pre-wrapped object
\* {"success":true,"result":X} the response is {"status":"success","result":X}:
\* no nested `success` field and no second `result` layer.
C11_PrewrappedResultFlattened ==
    \A t \in Callers :
        (Returned(t) /\ HasResultObject(t) /\ Prewrapped(ResultOf(t))) =>
            /\ ret[t].denotes = [status |-> "success", result |-> ResultOf(t).result]
            /\ ~HasField(ret[t].denotes.result, "success")

\* C12: a handler result object without a `success` field is a success, and
\* the envelope's `result` is that object, field for field: nothing added,
\* dropped or changed.
C12_NoFlagWholeObjectIsResult ==
    \A t \in Callers :
        (Returned(t) /\ HasResultObject(t) /\ ~HasField(ResultOf(t), "success")) =>
            /\ ret[t].wellformed
            /\ ret[t].denotes = [status |-> "success", result |-> ResultOf(t)]

\* C12 witness: a handler object without a flag, with fields of its own, has
\* come back to its caller as the `result` of a success envelope
C12_Witness ==
    \E t \in Callers :
        /\ Returned(t)
        /\ HasResultObject(t)
        /\ ~HasField(ResultOf(t), "success")
        /\ HasField(ResultOf(t), "params")
        /\ ret[t].denotes.result = ResultOf(t)

\* C13: when the handler's result object has success=false and an `error`
\* string M, the envelope is status "error" with error equal to M exactly,
\* whichever family the command was routed to.
C13_HandlerFailureMessageKept ==
    \A t \in Callers :
        (/\ Returned(t) /\ HasResultObject(t)
         /\ HasField(ResultOf(t), "success") /\ ResultOf(t).success = FALSE
         /\ HasField(ResultOf(t), "error")) =>
            /\ ret[t].wellformed
            /\ ret[t].denotes = [status |-> "error", error |-> ResultOf(t).error]

\* C13 witness: both an object family and a text family have had a handler
\* failure with a message come back to the caller as that message
C13_Witness ==
    \E t, u \in Callers :
        /\ Returned(t) /\ Returned(u)
        /\ Route(cur[t].CommandType) \in ObjectFamilies
        /\ Route(cur[u].CommandType) \in TextFamilies
        /\ \A w \in {t, u} :
              /\ HasResultObject(w)
              /\ HasField(ResultOf(w), "success") /\ ResultOf(w).success = FALSE
              /\ HasField(ResultOf(w), "error") /\ ResultOf(w).error # ""
              /\ ret[w].denotes.error = ResultOf(w).error

\* C14: every response string ExecuteCommand returns is an envelope whose
\* status is "success" or "error", with `result` present if and only if the
\* status is "success" and `error` present if and only if it is "error".
C14_EnvelopeShape ==
    \A t \in Callers :
        Returned(t) =>
            /\ ret[t].wellformed
            /\ HasField(ret[t].denotes, "status")
            /\ ret[t].denotes.status \in {"success", "error"}
            /\ HasField(ret[t].denotes, "result") <=> (ret[t].denotes.status = "success")
            /\ HasField(ret[t].denotes, "error") <=> (ret[t].denotes.status = "error")

\* C14 witness: one caller is back with a success envelope and another with
\* an error envelope
C14_Witness ==
    \E t, u \in Callers :
        /\ Returned(t) /\ Returned(u)
        /\ ret[t].denotes.status = "success" /\ HasField(ret[t].denotes, "result")
        /\ ret[u].denotes.status = "error" /\ HasField(ret[u].denotes, "error")

\* C15: `ping`, whatever its params, is answered with exactly
\* {"status":"success","result":{"message":"pong"}}, and no handler, the only
\* code that touches owner-side state, is called for it.
C15_PingAnswersPong ==
    \A t \in Callers :
        (Returned(t) /\ cur[t].CommandType = "ping") =>
            /\ ret[t].wellformed
            /\ ret[t].denotes = [status |-> "success", result |-> [message |-> "pong"]]
            /\ ~Happened("call", cur[t].id)
            /\ ~Happened("ret", cur[t].id)

\* C15 witness: a caller is back with the answer to a ping whose task ran
\* from begin to end
C15_Witness ==
    \E t \in Callers :
        /\ Returned(t)
        /\ cur[t].CommandType = "ping"
        /\ Happened("end", cur[t].id)
        /\ ret[t].denotes.result.message = "pong"

\* the stopped state: not running, no listener socket, no connection socket,
\* no server thread
Stopped ==
    /\ ~bIsRunning
    /\ ListenerSocket = nullptr
    /\ ConnectionSocket = nullptr
    /\ ServerThread = nullptr
\* the bridge's members and the sockets and threads behind them
LifecycleState == <<bIsRunning, ListenerSocket, ConnectionSocket, ServerThread,
                    sockets, threadState>>
\* no StartServer / StopServer call is in progress, and the last one was op
LastReturned(op) == lifePc = "idle" /\ lastCall.op = op

\* C16: StopServer called while the server is not running (before any
\* successful StartServer, or right after another StopServer) returns at once
\* and changes no state; and whenever a StopServer call returns the bridge is
\* in the stopped state, so calling it twice leaves what calling it once left.
C16_StopServerIdempotent ==
    [][ /\ (StopServerBegin /\ (~bIsRunning \/ LastReturned("StopServer")))
            => (lifePc' = "idle" /\ UNCHANGED LifecycleState /\ UNCHANGED vars)
        /\ LastReturned("StopServer")' => Stopped'
      ]_allVars

\* C16 witness: StopServer has returned twice in a row, the second call
\* having found nothing to do, after a server thread had been started and
\* taken down
C16_Witness ==
    /\ LastReturned("StopServer")
    /\ lastCall.prev = "StopServer"
    /\ lastCall.log = ""
    /\ \E t \in Callers : threadState[t] = "deleted"
    /\ Stopped

\* C17: after any sequence of StartServer / StopServer calls that ends with
\* StopServer the bridge holds no listener socket, no connection socket and
\* no server thread, every socket it created is closed and every thread it
\* created is joined and deleted; and a StartServer call in an environment
\* where every step works ends with the server listening and its thread
\* running, whatever calls came before.
C17_StopReleasesEverything ==
    /\ LastReturned("StopServer") =>
          /\ Stopped
          /\ \A i \in 1..Len(sockets) : sockets[i] = "closed"
          /\ \A t \in Callers : threadState[t] \in {"none", "deleted"}
    /\ (LastReturned("StartServer") /\ lastCall.env = "ok") =>
          /\ bIsRunning
          /\ ListenerSocket # nullptr
          /\ sockets[ListenerSocket] = "listening"
          /\ ServerThread # nullptr
          /\ threadState[ServerThread] = "running"

\* C17 witness: the server runs again after a start / stop cycle: the first
\* thread is deleted, the first socket closed, and the StartServer that came
\* right after the StopServer has a second socket listening
C17_Witness ==
    /\ LastReturned("StartServer")
    /\ lastCall.prev = "StopServer"
    /\ lastCall.log = "Server started"
    /\ \E t \in Callers : threadState[t] = "deleted"
    /\ \E i \in 1..Len(sockets) : sockets[i] = "closed"
    /\ bIsRunning
    /\ sockets[ListenerSocket] = "listening"

\* a StartServer call has returned after one of its steps failed
StartServerFailed ==
    /\ LastReturned("StartServer")
    /\ lastCall.log \notin {"Server started", "Server is already running"}

\* C18: when StartServer fails at any step (socket subsystem, socket
\* creation, bind, listen, thread creation) its caller is told of the
\* failure, and the bridge is left stopped: bIsRunning false, no listener
\* socket and no server thread kept.
C18_StartFailureReported ==
    StartServerFailed =>
        /\ lastCall.returns = "failed"
        /\ Stopped

\* the work items submitted and not completed: queued or being executed
PendingItems == {queue[i].id : i \in 1..Len(queue)} \cup {e.id : e \in executing}
\* the threads inside an ExecuteCommand call
InFlight == {t \in Threads : callerPc[t] # "idle"}

\* C19: with the one server thread blocking inside ExecuteCommand there is at
\* most one pending work item and at most one call in flight in every
\* reachable state, and a request is submitted only after every earlier
\* request's task has ended and its response has been handed back.
C19_OneCommandInFlight ==
    /\ Cardinality(PendingItems) <= 1
    /\ Cardinality(InFlight) <= 1
    /\ \A t \in InFlight : \A j \in 1..(cur[t].id - 1) :
          /\ Happened("end", j) \/ Happened("malformed", j)
          /\ j \notin PendingItems
          /\ promise[j] = FreshPromise

\* C19 witness: the second server thread waits for its request, the second
\* request of the behaviour, after the first thread had its answer and was
\* taken down
C19_Witness ==
    \E t \in Callers :
        /\ threadState[t] = "running"
        /\ Waiting(t)
        /\ cur[t].id > 1
        /\ Happened("end", 1)
        /\ PendingItems = {cur[t].id}
        /\ \E u \in Callers : threadState[u] = "deleted"

\* t's request is for a command with a required parameter, and its params
\* object does not have that field
LacksRequiredParam(t) ==
    /\ cur[t] # NoReq
    /\ cur[t].CommandType \in WithRequiredParam
    /\ ~HasField(cur[t].Params, RequiredParam(cur[t].CommandType))

\* C20: a request for a registered command with a required parameter
\* (asset_path, path, search_text, level_name, level_path) whose params
\* object lacks that field is answered with an envelope of status "error".
C20_MissingParamIsError ==
    \A t \in Callers :
        (Returned(t) /\ LacksRequiredParam(t)) =>
            /\ ret[t].wellformed
            /\ ret[t].denotes.status = "error"

\* a name that is no registered command name and differs from one only in
\* letter case
DiffersOnlyInCase(name) ==
    /\ name \notin RegisteredNames
    /\ \E n \in RegisteredNames : ToLower(name) = ToLower(n)

\* C21: a command name that differs from a registered name only in letter
\* case ("PING") is not routed to that command's handler: the answer is the
\* envelope {"status":"error","error":"Unknown command: <name>"} and no
\* handler is called.
C21_NamesAreCaseSensitive ==
    \A t \in Callers :
        (Returned(t) /\ DiffersOnlyInCase(cur[t].CommandType)) =>
            /\ ret[t].denotes.status = "error"
            /\ ret[t].denotes.error = "Unknown command: " \o cur[t].CommandType
            /\ ~Happened("call", cur[t].id)

\* message k of the behaviour was not well-formed JSON
Malformed(k) == Happened("malformed", k)

\* C22: a message that is not well-formed JSON is answered with one error
\* envelope, nothing is dispatched for it and the server thread stays on its
\* connection; a well-formed ping that the same thread reads later is
\* dispatched and answered with its normal response.
C22_MalformedAnsweredConnectionKept ==
    [][ /\ \A k \in Ids :
            (~Malformed(k) /\ Malformed(k)') =>
                \E t \in Callers :
                    /\ callerPc[t] = "idle" /\ callerPc'[t] = "returned"
                    /\ ret'[t].wellformed
                    /\ ret'[t].denotes.status = "error"
                    /\ ~HasField(ret'[t].denotes, "result")
                    /\ threadState'[t] = "running"
                    /\ queue' = queue /\ executing' = executing
        /\ \A t \in Callers :
            (/\ callerPc'[t] = "returned" /\ callerPc[t] = "waiting"
             /\ cur[t].CommandType = "ping"
             /\ \E k \in Ids : Malformed(k)) =>
                ret'[t].denotes = [status |-> "success", result |-> [message |-> "pong"]]
      ]_allVars

\* C22 witness: the one server thread there has been has the answer to a
\* ping that it read after a malformed message
C22_Witness ==
    \E t \in Callers :
        /\ threadState[t] = "running"
        /\ \A u \in Callers \ {t} : threadState[u] = "none"
        /\ Returned(t)
        /\ HasField(cur[t], "CommandType")
        /\ cur[t].CommandType = "ping"
        /\ \E k \in Ids : k < cur[t].id /\ Malformed(k)
        /\ ret[t].denotes.status = "success"

\* the task of request k is queued or being executed
TaskPending(k) == InQueue(k) \/ \E e \in executing : e.id = k

\* C23: a call of ExecuteCommand from a non-owner thread is never left
\* without a way to its response: while the caller waits, its Promise is
\* fulfilled already or its task is still on the way (queued or executing) in
\* a process that is alive, so that a game thread that keeps draining its
\* queue brings the response.
C23_NoCallerLeftWaiting ==
    \A t \in Callers :
        Waiting(t) =>
            \/ promise[cur[t].id].set
            \/ (TaskPending(cur[t].id) /\ crashed = "none")

\* the game thread is inside Kill(true), waiting for the server thread to end
JoinWaits == lifePc = "stop_join" /\ ServerThread # nullptr /\ ~ThreadJoined(ServerThread)
\* thread t is inside Future.Get(), waiting for its task to fulfil the Promise
GetWaits(t) == Waiting(t) /\ ~promise[cur[t].id].set

\* C24: StopServer on the game thread completes even when the server thread
\* is blocked inside ExecuteCommand: the join of Kill(true) and the thread's
\* Future.Get() never wait on each other, that is, the game thread is never
\* inside the join while the thread it joins waits for a task that only the
\* game thread can run.
C24_JoinNeverWaitsOnBlockedListener ==
    ~(JoinWaits /\ GetWaits(ServerThread) /\ InQueue(cur[ServerThread].id))

\* C25: between completed calls of Initialize, StartServer and StopServer,
\* bIsRunning is true exactly when ListenerSocket is valid and ServerThread
\* is non-null, and when bIsRunning is false ListenerSocket, ConnectionSocket
\* and ServerThread are all null.
C25_LifecycleInvariant ==
    lifePc = "idle" =>
        /\ bIsRunning <=> (ListenerSocket # nullptr /\ ServerThread # nullptr)
        /\ ~bIsRunning => Stopped

\* C25 witness: a StartServer that bound and listened, set the flag and the
\* member, found no thread to create and has returned
C25_Witness ==
    /\ LastReturned("StartServer")
    /\ lastCall.env = "no_thread"
    /\ \E i \in 1..Len(sockets) : sockets[i] = "closed"

\* the sockets that listen, and the server threads not yet taken down
ListeningSockets == {i \in 1..Len(sockets) : sockets[i] = "listening"}
LiveThreads == {t \in Callers : threadState[t] \in {"running", "stopping", "exited"}}

\* C26: StartServer called while the server runs returns at once having
\* changed nothing (no socket, no thread, flag, members as they were), and at
\* every moment there is at most one listening socket and one server thread.
C26_StartWhileRunningChangesNothing ==
    [][ /\ ((\E e \in Environments : StartServerBegin(e)) /\ bIsRunning)
            => (lifePc' = "idle" /\ UNCHANGED LifecycleState /\ UNCHANGED vars)
        /\ Cardinality(ListeningSockets') <= 1
        /\ Cardinality(LiveThreads') <= 1
      ]_allVars

\* C26 witness: StartServer has returned from its running check, the server
\* of the earlier StartServer still running
C26_Witness ==
    /\ LastReturned("StartServer")
    /\ lastCall.log = "Server is already running"
    /\ lastCall.prev = "StartServer"
    /\ bIsRunning
    /\ Cardinality(ListeningSockets) = 1
    /\ Cardinality(LiveThreads) = 1

\* StopServer is past its running check
Stopping == lifePc \in {"stop_thread", "stop_join", "stop_connection", "stop_listener"}
\* StopServer is at one of its two socket steps
AtSockets == lifePc \in {"stop_connection", "stop_listener"}
\* the server thread is alive and may use its sockets
ThreadAlive == \E t \in Callers : threadState[t] \in {"running", "stopping"}

\* C27: in StopServer the flag is cleared first, then the thread is killed
\* and waited for, and only then the two sockets are destroyed; no step
\* closes a socket while a server thread is alive.
C27_StopOrder ==
    [][ /\ Stopping' => ~bIsRunning'
        /\ AtSockets' => (ServerThread' = nullptr /\ ~ThreadAlive')
        /\ (\E i \in 1..Len(sockets) : sockets[i] # "closed" /\ sockets'[i] = "closed")
              => ~ThreadAlive
      ]_allVars

\* C27 witness: StopServer is about to destroy the listening socket of a
\* server whose thread it has joined and deleted
C27_Witness ==
    /\ lifePc = "stop_listener"
    /\ call.op = "StopServer"
    /\ ListenerSocket # nullptr
    /\ sockets[ListenerSocket] = "listening"
    /\ \E t \in Callers : threadState[t] = "deleted"

\* the command names of a family's branch in ExecuteCommand
NamesOf(fam) ==
    IF fam = "ping" THEN {"ping"}
    ELSE IF fam = "Editor" THEN EditorNames
    ELSE IF fam = "Blueprint" THEN BlueprintNames
    ELSE IF fam = "BlueprintNode" THEN BlueprintNodeNames
    ELSE IF fam = "Project" THEN ProjectNames
    ELSE IF fam = "UMG" THEN UMGNames
    ELSE IF fam = "Asset" THEN AssetNames
    ELSE IF fam = "ContentBrowser" THEN ContentBrowserNames
    ELSE IF fam = "AssetRegistry" THEN AssetRegistryNames
    ELSE IF fam = "Level" THEN LevelNames
    ELSE IF fam = "Landscape" THEN LandscapeNames
    ELSE WorldNames
\* the branches of the chain whose condition a name satisfies
FamiliesMatching(n) == {fam \in Families \cup {"ping"} : Matches(n, NamesOf(fam))}
\* the objects the six fallbacks of the text families' HandleCommand denote
FamilyFallbacks(CommandType) ==
    { [success |-> FALSE, error |-> "Unknown asset command: " \o CommandType],
      [success |-> FALSE, error |-> "Unknown content browser command: " \o CommandType],
      [success |-> FALSE, error |-> "Unknown asset registry command: " \o CommandType],
      [success |-> FALSE, error |-> "Unknown level command"],
      [success |-> FALSE, error |-> "Unknown landscape command"],
      [success |-> FALSE, error |-> "Unknown world command"] }
\* a HandleCommand call has been made
WasHandled == handled # NoHandled

\* C28: a command name that ExecuteCommand routes to a text family is
\* recognised by that family's HandleCommand, so what the family returns is
\* never one of the "Unknown ... command" fallbacks; and every registered
\* name, in any letter case, satisfies the condition of exactly one branch.
C28_DispatchLayersAgree ==
    /\ \A n \in RegisteredNames \cup {"PING", "Load_Asset", "Get_Asset_References"} :
          Cardinality(FamiliesMatching(n)) = 1
    /\ WasHandled => handled.Response.denotes \notin FamilyFallbacks(handled.CommandType)

\* C28 witness: the last name of the landscape branch has been routed to the
\* landscape family and answered by its handler
C28_Witness ==
    /\ WasHandled
    /\ handled.CommandType = "get_landscape_info"
    /\ handled.env.hasWorld
    /\ handled.Response.denotes.success

\* the text is a JSON object that reports success
IsSuccess(Response) == Response.wellformed /\ Response.denotes.success
\* the text is the JSON object {success: false, error: msg}
IsError(Response, msg) ==
    Response.wellformed /\ Response.denotes = [success |-> FALSE, error |-> msg]
\* the last call was this command with a non-empty level_name, on a world
UnloadCalled ==
    /\ WasHandled
    /\ handled.CommandType = "unload_streaming_level"
    /\ HasField(handled.Params, "level_name")
    /\ handled.Params.level_name # ""
    /\ handled.env.hasWorld

\* C29: unload_streaming_level with level_name L on a world: when streaming
\* levels with package name L exist, the one with the highest index is
\* removed, all others stay where they are, and the result is a success;
\* when none exists the world is as it was and the result is success=false
\* with the error "Failed to unload streaming level: L".
C29_UnloadRemovesOneOrFails ==
    UnloadCalled =>
        LET L == handled.Params.level_name
            Found == MatchingLevels(handled.before, L) IN
        IF Found # {}
        THEN /\ EditorWorld.levels = RemoveAt(handled.before.levels, Highest(Found))
             /\ EditorWorld.map = handled.before.map
             /\ IsSuccess(handled.Response)
        ELSE /\ EditorWorld = handled.before
             /\ IsError(handled.Response, "Failed to unload streaming level: " \o L)

\* the part of C29 about the world alone, and about names without a quote
C29_FrameAndPlainNames ==
    UnloadCalled =>
        LET L == handled.Params.level_name
            Found == MatchingLevels(handled.before, L) IN
        /\ EditorWorld.map = handled.before.map
        /\ EditorWorld.levels = IF Found # {}
                                THEN RemoveAt(handled.before.levels, Highest(Found))
                                ELSE handled.before.levels
        /\ ~NeedsEscape(L) =>
             IF Found # {} THEN IsSuccess(handled.Response)
             ELSE IsError(handled.Response, "Failed to unload streaming level: " \o L)

\* the six level commands that need a string parameter
ValidatingLevelCommands == LevelNames \ {"save_level"}
\* the required parameter of the last call is absent or empty
RequiredAbsentOrEmpty ==
    LET Field == LevelParam(handled.CommandType) IN
    ~HasField(handled.Params, Field) \/ handled.Params[Field] = ""

\* C30: create_level, load_level, set_level_visibility,
\* create_streaming_level, load_streaming_level and unload_streaming_level,
\* called without their level_name / level_path or with an empty one, return
\* success=false with "<param> parameter is required" and leave the editor
\* world (open map, streaming levels, their flags) as it was.
C30_LevelCommandsValidateFirst ==
    (WasHandled /\ handled.CommandType \in ValidatingLevelCommands /\ RequiredAbsentOrEmpty) =>
        /\ IsError(handled.Response,
                   LevelParam(handled.CommandType) \o " parameter is required")
        /\ EditorWorld = handled.before

\* C30 witness: unload_streaming_level was called with an empty level_name
\* on a world that has streaming levels
C30_Witness ==
    /\ WasHandled
    /\ handled.CommandType = "unload_streaming_level"
    /\ handled.Params = [level_name |-> ""]
    /\ Len(handled.before.levels) > 1
    /\ EditorWorld = handled.before

====
